---- MODULE Spec2Model ----
(***************************************************************************)
(* Model of app.py: the Flask stock server.                                *)
(*                                                                         *)
(*   get_stock_symbols   the batch partitioner                             *)
(*   fetch_stock_data    one provider call wrapped in a bounded retry loop *)
(*   get_stocks_data     the /get_stocks_data handler: validation, the     *)
(*                       thread-pool fan-out, as_completed collection and  *)
(*                       the JSON response                                 *)
(*   get_all_stock_codes the /get_all_stock_codes handler                  *)
(*                                                                         *)
(* The quote provider (nseconnect.Nse) is the environment.  Symbols are    *)
(* the numbers 1..n in the order of the provider's code table; 0 stands    *)
(* for the table's header key "SYMBOL".                                    *)
(***************************************************************************)
EXTENDS Integers, Sequences, FiniteSets, TLC

\* ------------------------------------------------------------ constants
MAX_RETRIES == 3

RETRY_DELAY == 5

MAX_WORKERS == 30

BATCH_COUNT_NUM == 100

CAPITAL == 100000

\* ------------------------------------------------------------ bounds
\* The largest symbol table the provider returns at start-up.
MaxSymbols == 201

\* A provider outage lasts at most this many calls for one symbol.
MaxOutage == 4

\* Number of request slots of the HTTP server.
NumRequests == 2

\* Inputs of the partitioner's own specification.
MaxPartLen == 12

MaxTarget == 5

\* Inputs of the calculator's own specification, in ticks of 0.05: the
\* largest open price and the largest prior-day range.
MaxOpen == 45

MaxRange == 2

\* The batch of the thread-pool specification exceeds the worker cap by
\* this many symbols.
PoolExcess == 1

\* The symbol table of the specification of concurrent requests.
ConcSymbols == 2

\* ------------------------------------------------------------ helpers
SYMBOL == 0

Requests == 1..NumRequests

Min(a, b) == IF a < b THEN a ELSE b

Max(a, b) == IF a > b THEN a ELSE b

Range(s) == {s[i] : i \in DOMAIN s}

\* The provider's code table: the header key (when present) and n symbols.
CodeTable(n, header) ==
    IF header THEN <<SYMBOL>> \o [i \in 1..n |-> i] ELSE [i \in 1..n |-> i]

\* [symbol for symbol in stock_codes if symbol != "SYMBOL"]
SymbolsOf(codes) == SelectSeq(codes, LAMBDA c : c # SYMBOL)

\* Python's truncating a // b and math.ceil(a / b) for a >= 0, b > 0.
FloorDiv(a, b) == a \div b

CeilDiv(a, b) == (a + b - 1) \div b

VARIABLES
    stock_codes,      \* module global: the provider's code table
    stock_symbols,    \* module global: the table without its header key
    pc,               \* per request: position of the handler
    batch_param,      \* per request: the parsed batch_num argument
    selected_symbols, \* per request: main_lst[batch_param - 1]
    futures,          \* per request: the submitted fetch_stock_data calls
    all_stock_data,   \* per request: the result collector
    rounds,           \* per request: thread-pool fan-outs performed
    response,         \* per request: the HTTP response
    codes_response,   \* the last response of /get_all_stock_codes
    part_in,          \* partitioner specification: the input
    part_out,         \* partitioner specification: the output
    calc_in,          \* calculator specification: the arguments
    calc_out          \* calculator specification: the returned dict

vars == <<stock_codes, stock_symbols, pc, batch_param, selected_symbols,
          futures, all_stock_data, rounds, response, codes_response,
          part_in, part_out, calc_in, calc_out>>

server_vars == <<stock_codes, stock_symbols, pc, batch_param, selected_symbols,
                 futures, all_stock_data, rounds, response, codes_response>>

part_vars == <<part_in, part_out>>

calc_vars == <<calc_in, calc_out>>

\* ------------------------------------------------------------ partitioner
\* batch_size = max(1, len(stock_symbols) // BATCH_COUNT_NUM)
batch_size_floor_as_ceil(n, batch_count) == Max(1, CeilDiv(n, batch_count))

batch_size_of(n, batch_count) == Max(1, FloorDiv(n, batch_count))

\* range(0, n, step): its length, and its k-th element (k = 0, 1, ...).
range_len_drops_remainder(n, step) == FloorDiv(n, step)

range_len(n, step) == Cardinality({i \in 0..(n - 1) : i % step = 0})

range_at(k, step) == k * step

\* stock_symbols[i:j]
py_slice_one_more(symbols, i, j) == SubSeq(symbols, i + 1, Min(j + 1, Len(symbols)))

py_slice(symbols, i, j) == SubSeq(symbols, i + 1, Min(j, Len(symbols)))

\* The list comprehension: one slice per element of the range, in order.
get_stock_symbols(symbols, batch_count) ==
    LET batch_size == batch_size_of(Len(symbols), batch_count)
    IN  [k \in 1..range_len(Len(symbols), batch_size) |->
            py_slice(symbols, range_at(k - 1, batch_size),
                     range_at(k - 1, batch_size) + batch_size)]

\* list[i] of Python: 0-based, a negative index counts from the end.
py_index(list, i) == IF i >= 0 THEN list[i + 1] ELSE list[Len(list) + i + 1]

\* ------------------------------------------------------------ calculator
\* Prices are whole numbers of ticks of 0.05; a value that is not on the
\* grid is the fraction num / den of a tick.
TicksPerUnit == 20

\* Python's round() of num / den to an integer.  A value exactly half way
\* between two integers is computed in floating point and lands on either
\* one.
py_round(num, den) ==
    LET n == IF den < 0 THEN 0 - num ELSE num
        d == IF den < 0 THEN 0 - den ELSE den
        q == n \div d
        r == n % d
    IN  IF 2 * r < d THEN {q} ELSE IF 2 * r > d THEN {q + 1} ELSE {q, q + 1}

\* mround(value, 0.05) with value = num / den ticks: the nearest tick.
mround(num, den) == py_round(num, den)

\* shares_num = mround(risk_per_trade / risk_buy, 1) if risk_buy != 0 else 0;
\* -1 stands for the ZeroDivisionError of a division by 0.
ZeroDivisionError == 0 - 1

shares_num_unguarded(risk_per_trade, risk_buy) ==
    IF risk_buy = 0 THEN {ZeroDivisionError}
    ELSE py_round(TicksPerUnit * risk_per_trade, risk_buy)

shares_num_of(risk_per_trade, risk_buy) ==
    IF risk_buy # 0 THEN py_round(TicksPerUnit * risk_per_trade, risk_buy) ELSE {0}

\* mround(entry +/- target_profit / shares_num, 0.05) if shares_num else 0
stopgain(entry, sign, target_profit, shares_num) ==
    IF shares_num # 0
    THEN mround(entry * shares_num + sign * TicksPerUnit * target_profit, shares_num)
    ELSE {0}

Raised == [raised |-> TRUE]

\* The dicts calculate_and_save can return for prices given in ticks, or
\* Raised when it raises.
calculate_and_save(open_price, yesterday_high, yesterday_low) ==
    LET risk_per_trade == CAPITAL \div 100
        target_profit  == (CAPITAL * 15) \div 1000
        range_value    == yesterday_high - yesterday_low
    IN  UNION {UNION {UNION {UNION {
          LET risk_buy == buy_entry - buy_stoploss
          IN  UNION {
                IF shares_num = ZeroDivisionError THEN {Raised}
                ELSE {[raised |-> FALSE,
                       Buy_Entry |-> buy_entry, Sell_Entry |-> sell_entry,
                       Buy_Stoploss |-> buy_stoploss, Sell_Stoploss |-> sell_stoploss,
                       Buy_Stopgain |-> bg, Sell_Stopgain |-> sg,
                       Shares_count |-> shares_num] :
                         bg \in stopgain(buy_entry, 1, target_profit, shares_num),
                         sg \in stopgain(sell_entry, 0 - 1, target_profit, shares_num)}
                : shares_num \in shares_num_of(risk_per_trade, risk_buy)}
          : sell_stoploss \in mround(sell_entry * 10135, 10000)}
          : buy_stoploss \in mround(buy_entry * 9865, 10000)}
          : sell_entry \in mround(100 * open_price - 55 * range_value, 100)}
          : buy_entry \in mround(100 * open_price + 55 * range_value, 100)}

\* ------------------------------------------------------------ provider
FailureKinds == {"raise", "none", "empty"}

\* What nse.get_quote(symbol) does on one call: it raises, returns None,
\* returns an empty payload, or returns a non-empty quote of the symbol.
Reply(kind, symbol) == [kind |-> kind, symbol |-> symbol]

NoReply == Reply("unset", SYMBOL)

\* The provider is down for a symbol during its first `outage` calls (it
\* fails in the way `kind`) and answers every later call.
get_quote(symbol, calls_before, outage, kind) ==
    IF calls_before < outage THEN Reply(kind, symbol) ELSE Reply("quote", symbol)

\* Python truthiness of the value get_quote returned.
truthy(quote) == quote.kind = "quote"

\* ------------------------------------------------------------ fetch_stock_data
None == [kind |-> "None", STOCK_SYMBOL |-> SYMBOL, STOCK_DATA |-> NoReply]

obj(symbol, quote) == [kind |-> "obj", STOCK_SYMBOL |-> symbol, STOCK_DATA |-> quote]

\* One iteration of the retry loop, given what the provider did: the body
\* of the try (return obj), or the except branch (sleep, or return None).
fetch_try_sleeps_after_last(symbol, attempt, reply) ==
    IF reply.kind # "raise" /\ truthy(reply)
    THEN [next |-> "return", value |-> obj(symbol, reply)]
    ELSE IF attempt <= MAX_RETRIES
         THEN [next |-> "sleep", value |-> None]
         ELSE [next |-> "return", value |-> None]

fetch_try_ignores_first_success(symbol, attempt, reply) ==
    IF reply.kind # "raise" /\ truthy(reply) /\ attempt > 1
    THEN [next |-> "return", value |-> obj(symbol, reply)]
    ELSE IF attempt < MAX_RETRIES
         THEN [next |-> "sleep", value |-> None]
         ELSE [next |-> "return", value |-> None]

fetch_try_accepts_empty(symbol, attempt, reply) ==
    IF reply.kind # "raise"
    THEN [next |-> "return", value |-> obj(symbol, reply)]
    ELSE IF attempt < MAX_RETRIES
         THEN [next |-> "sleep", value |-> None]
         ELSE [next |-> "return", value |-> None]

fetch_try_reraises_last(symbol, attempt, reply) ==
    IF reply.kind # "raise" /\ truthy(reply)
    THEN [next |-> "return", value |-> obj(symbol, reply)]
    ELSE IF attempt < MAX_RETRIES
         THEN [next |-> "sleep", value |-> None]
         ELSE [next |-> "raise", value |-> None]

fetch_try(symbol, attempt, reply) ==
    IF reply.kind # "raise" /\ truthy(reply)
    THEN [next |-> "return", value |-> obj(symbol, reply)]
    ELSE IF attempt < MAX_RETRIES
         THEN [next |-> "sleep", value |-> None]
         ELSE [next |-> "return", value |-> None]

\* A submitted call fetch_stock_data(symbol): the Future and the frame of
\* the call.  calls, delays and slept count the provider calls made, the
\* time.sleep calls made and the time slept.
Future(symbol, outage) ==
    [symbol |-> symbol, state |-> "queued", attempt |-> 0,
     result |-> None, yielded |-> FALSE,
     calls |-> 0, delays |-> 0, slept |-> 0, outage |-> outage]

\* for attempt in range(1, MAX_RETRIES + 1): the next iteration, or the end
\* of the loop, where the function returns None implicitly.
next_attempt(f) ==
    IF f.attempt + 1 <= MAX_RETRIES
    THEN [f EXCEPT !.state = "calling", !.attempt = f.attempt + 1]
    ELSE [f EXCEPT !.state = "returned", !.result = None]

\* The call of nse.get_quote and the rest of the iteration up to the
\* return or the start of time.sleep.
after_call(f, kind) ==
    LET reply == get_quote(f.symbol, f.calls, f.outage, kind)
        step  == fetch_try(f.symbol, f.attempt, reply)
        g     == [f EXCEPT !.calls = f.calls + 1]
    IN  CASE step.next = "return" ->
                [g EXCEPT !.state = "returned", !.result = step.value]
          [] step.next = "sleep" ->
                [g EXCEPT !.state = "sleeping", !.delays = g.delays + 1,
                          !.slept = g.slept + RETRY_DELAY]
          [] step.next = "raise" ->
                [g EXCEPT !.state = "raised"]

finished(f) == f.state \in {"returned", "raised"}

running(f) == f.state \in {"calling", "sleeping"}

\* ------------------------------------------------------------ get_stocks_data
\* request.args.get("batch_num", default=None, type=int): absent, or an int.
Arg(given, value) == [given |-> given, value |-> value]

NoArg == Arg(FALSE, 0)

\* The two checks of the handler: "missing", "range" or "ok".
check_batch_num(arg, main_lst) ==
    IF ~arg.given THEN "missing"
    ELSE IF arg.value < 1 \/ arg.value > Len(main_lst) THEN "range"
    ELSE "ok"

\* selected_symbols = main_lst[batch_param - 1]
select_batch_off_by_one(main_lst, batch_num) == py_index(main_lst, batch_num - 2)

select_batch(main_lst, batch_num) == py_index(main_lst, batch_num - 1)

NoResponse == [status |-> 0]

BadRequest(why, hi) == [status |-> 400, error |-> why, lo |-> 1, hi |-> hi]

\* jsonify({"timestamp": ..., "stocks": all_stock_data})
Ok(stocks) == [status |-> 200, body |-> [timestamp |-> "now", stocks |-> stocks]]

\* except Exception as e: return jsonify({"error": str(e)}), 500
ServerError == [status |-> 500, error |-> "exception"]

\* if result: all_stock_data.append(result)
collect_drops_result(data, result) == data

collect_keeps_latest(data, result) == IF result.kind = "obj" THEN <<result>> ELSE data

collect(data, result) == IF result.kind = "obj" THEN Append(data, result) ELSE data

\* The handler up to the creation of the thread pool.
HandlerEntry(r, arg) ==
    /\ pc[r] = "idle"
    /\ LET main_lst == get_stock_symbols(stock_symbols, BATCH_COUNT_NUM)
           verdict  == check_batch_num(arg, main_lst)
       IN  /\ batch_param' = [batch_param EXCEPT ![r] = arg]
           /\ IF verdict = "ok"
              THEN /\ selected_symbols' =
                          [selected_symbols EXCEPT ![r] = select_batch(main_lst, arg.value)]
                   /\ rounds' = [rounds EXCEPT ![r] = rounds[r] + 1]
                   /\ pc' = [pc EXCEPT ![r] = "submitting"]
                   /\ UNCHANGED response
              ELSE /\ response' = [response EXCEPT ![r] = BadRequest(verdict, Len(main_lst))]
                   /\ pc' = [pc EXCEPT ![r] = "responded"]
                   /\ UNCHANGED <<selected_symbols, rounds>>
    /\ UNCHANGED <<stock_codes, stock_symbols, futures, all_stock_data, codes_response>>
    /\ UNCHANGED part_vars
    /\ UNCHANGED calc_vars

\* executor.submit(fetch_stock_data, symbol) for the next symbol of the
\* dict comprehension; after the last one the as_completed loop starts.
Submit(r, outage) ==
    /\ pc[r] = "submitting"
    /\ LET k == Len(futures[r]) + 1
       IN  /\ futures' = [futures EXCEPT
                  ![r] = Append(futures[r], Future(selected_symbols[r][k], outage))]
           /\ pc' = [pc EXCEPT
                  ![r] = IF k = Len(selected_symbols[r]) THEN "collecting" ELSE "submitting"]
    /\ UNCHANGED <<stock_codes, stock_symbols, batch_param, selected_symbols,
                   all_stock_data, rounds, response, codes_response>>
    /\ UNCHANGED part_vars
    /\ UNCHANGED calc_vars

\* ThreadPoolExecutor(max_workers=MAX_WORKERS): a queued work item is taken
\* by an idle thread, or by a new thread while the pool has fewer than
\* MAX_WORKERS of them; n_running threads are inside a call.
worker_available_unbounded(n_running) == TRUE

worker_available(n_running) == n_running < MAX_WORKERS

\* A pool thread takes the oldest queued work item; the pool never has more
\* than MAX_WORKERS threads.
StartFetch(r, i) ==
    /\ i \in DOMAIN futures[r]
    /\ futures[r][i].state = "queued"
    /\ \A j \in 1..(i - 1) : futures[r][j].state # "queued"
    /\ worker_available(Cardinality({j \in DOMAIN futures[r] : running(futures[r][j])}))
    /\ futures' = [futures EXCEPT ![r][i] = next_attempt(futures[r][i])]
    /\ UNCHANGED <<stock_codes, stock_symbols, pc, batch_param, selected_symbols,
                   all_stock_data, rounds, response, codes_response>>
    /\ UNCHANGED part_vars
    /\ UNCHANGED calc_vars

\* quote = nse.get_quote(symbol) and what follows it in the iteration.
ProviderCall(r, i, kind) ==
    /\ i \in DOMAIN futures[r]
    /\ futures[r][i].state = "calling"
    /\ futures' = [futures EXCEPT ![r][i] = after_call(futures[r][i], kind)]
    /\ UNCHANGED <<stock_codes, stock_symbols, pc, batch_param, selected_symbols,
                   all_stock_data, rounds, response, codes_response>>
    /\ UNCHANGED part_vars
    /\ UNCHANGED calc_vars

\* time.sleep(RETRY_DELAY) returns and the loop goes on.
Wake(r, i) ==
    /\ i \in DOMAIN futures[r]
    /\ futures[r][i].state = "sleeping"
    /\ futures' = [futures EXCEPT ![r][i] = next_attempt(futures[r][i])]
    /\ UNCHANGED <<stock_codes, stock_symbols, pc, batch_param, selected_symbols,
                   all_stock_data, rounds, response, codes_response>>
    /\ UNCHANGED part_vars
    /\ UNCHANGED calc_vars

\* One iteration of "for future in as_completed(futures)": future.result()
\* returns the call's value, or re-raises what the call raised, which ends
\* the loop.
Collect(r, i) ==
    /\ pc[r] = "collecting"
    /\ i \in DOMAIN futures[r]
    /\ finished(futures[r][i])
    /\ ~futures[r][i].yielded
    /\ futures' = [futures EXCEPT ![r][i].yielded = TRUE]
    /\ IF futures[r][i].state = "raised"
       THEN /\ pc' = [pc EXCEPT ![r] = "unwinding"]
            /\ UNCHANGED all_stock_data
       ELSE /\ all_stock_data' =
                   [all_stock_data EXCEPT ![r] = collect(all_stock_data[r], futures[r][i].result)]
            /\ UNCHANGED pc
    /\ UNCHANGED <<stock_codes, stock_symbols, batch_param, selected_symbols,
                   rounds, response, codes_response>>
    /\ UNCHANGED part_vars
    /\ UNCHANGED calc_vars

\* The with block is left: the as_completed loop has yielded every future
\* (or future.result() raised), and executor.shutdown(wait=True) returns
\* once every submitted call has finished.
with_block_left_at_first_result(at, fs) ==
    at = "collecting" => \E i \in DOMAIN fs : fs[i].yielded

with_block_left_waits_for_success(at, fs) ==
    /\ at = "collecting" => \A i \in DOMAIN fs : fs[i].yielded
    /\ \A i \in DOMAIN fs : fs[i].state = "returned" /\ fs[i].result.kind = "obj"

with_block_left(at, fs) ==
    /\ at = "collecting" => \A i \in DOMAIN fs : fs[i].yielded
    /\ \A i \in DOMAIN fs : finished(fs[i])

\* The with block is left and the response is built.
Respond(r) ==
    /\ pc[r] \in {"collecting", "unwinding"}
    /\ with_block_left(pc[r], futures[r])
    /\ response' = [response EXCEPT
           ![r] = IF pc[r] = "unwinding" THEN ServerError ELSE Ok(all_stock_data[r])]
    /\ pc' = [pc EXCEPT ![r] = "responded"]
    /\ UNCHANGED <<stock_codes, stock_symbols, batch_param, selected_symbols,
                   futures, all_stock_data, rounds, codes_response>>
    /\ UNCHANGED part_vars
    /\ UNCHANGED calc_vars

\* ------------------------------------------------------------ get_all_stock_codes
\* What nse.get_stock_codes() does: it raises, or returns a code table.
CodesReply(raises, table) == [raises |-> raises, table |-> table]

NoCodesResponse == [status |-> 0]

\* jsonify({"total_stock_codes": ..., "batch_size": ..., "batch_count": ...})
CodesOk(symbols, batch_size) ==
    [status |-> 200, total_stock_codes |-> Len(symbols), stock_codes |-> symbols,
     batch_size |-> batch_size, batch_count |-> CeilDiv(Len(symbols), batch_size)]

\* The whole handler.  The table is asked for again only when the global is
\* empty; a raising provider and the division by a batch size of 0 both end
\* in the except branch, the second after the globals were assigned.
GetAllStockCodes(reply) ==
    LET refetch    == Len(stock_codes) = 0
        codes      == IF refetch /\ ~reply.raises THEN reply.table ELSE stock_codes
        symbols    == IF refetch /\ ~reply.raises THEN SymbolsOf(reply.table) ELSE stock_symbols
        batch_size == CeilDiv(Len(symbols), BATCH_COUNT_NUM)
    IN  /\ stock_codes' = codes
        /\ stock_symbols' = symbols
        /\ codes_response' =
               IF (refetch /\ reply.raises) \/ batch_size = 0
               THEN ServerError
               ELSE CodesOk(symbols, batch_size)
        /\ UNCHANGED <<pc, batch_param, selected_symbols, futures, all_stock_data,
                       rounds, response>>
        /\ UNCHANGED part_vars
        /\ UNCHANGED calc_vars

\* ------------------------------------------------------------ the server
\* Table sizes at which the partition changes shape: no symbol at all, and
\* the sizes around 2 * BATCH_COUNT_NUM, where the batch size becomes 2.
SymbolCounts == {0} \cup (MaxSymbols - 2)..MaxSymbols

\* The tables the provider returns: nothing at all, or the header key and
\* the symbols.
CodeTables == {<<>>} \cup {CodeTable(n, TRUE) : n \in SymbolCounts}

\* The provider is asked only when the global table is empty.
CodesReplies(codes) ==
    IF Len(codes) = 0
    THEN {CodesReply(TRUE, <<>>)} \cup {CodesReply(FALSE, t) : t \in CodeTables}
    ELSE {CodesReply(FALSE, codes)}

\* batch_num as a client may send it: absent, or around the valid range.
Args(main_lst) ==
    {NoArg} \cup {Arg(TRUE, v) : v \in {0, 1, Len(main_lst), Len(main_lst) + 1}}

PartInput(n, target) == [symbols |-> [i \in 1..n |-> i], target |-> target]

ServerInit ==
    /\ stock_codes \in CodeTables
    /\ stock_symbols = SymbolsOf(stock_codes)
    /\ pc = [r \in Requests |-> "idle"]
    /\ batch_param = [r \in Requests |-> NoArg]
    /\ selected_symbols = [r \in Requests |-> <<>>]
    /\ futures = [r \in Requests |-> <<>>]
    /\ all_stock_data = [r \in Requests |-> <<>>]
    /\ rounds = [r \in Requests |-> 0]
    /\ response = [r \in Requests |-> NoResponse]
    /\ codes_response = NoCodesResponse

CalcInput(open, high, low) == [open |-> open, high |-> high, low |-> low]

NoCalc == [done |-> FALSE]

Init ==
    /\ ServerInit
    /\ part_in = PartInput(0, BATCH_COUNT_NUM)
    /\ part_out = [done |-> FALSE, main_lst |-> <<>>]
    /\ calc_in = CalcInput(0, 0, 0)
    /\ calc_out = NoCalc

\* No other request is being served or was served: the requests of one
\* server share nothing but the symbol table, and this specification follows
\* one of them from its arrival to its response.
Alone(r) == \A q \in Requests \ {r} : pc[q] = "idle"

\* The server serving one /get_stocks_data request, with /get_all_stock_codes
\* requests at any time.
Next ==
    \/ \E r \in Requests :
          /\ pc[r] = "idle" /\ Alone(r)
          /\ \E arg \in Args(get_stock_symbols(stock_symbols, BATCH_COUNT_NUM)) :
                HandlerEntry(r, arg)
    \/ \E r \in Requests, outage \in 0..MaxOutage : Submit(r, outage)
    \/ \E r \in Requests : \E i \in DOMAIN futures[r] : StartFetch(r, i)
    \/ \E r \in Requests : \E i \in DOMAIN futures[r] :
          \E kind \in FailureKinds : ProviderCall(r, i, kind)
    \/ \E r \in Requests : \E i \in DOMAIN futures[r] : Wake(r, i)
    \/ \E r \in Requests : \E i \in DOMAIN futures[r] : Collect(r, i)
    \/ \E r \in Requests : Respond(r)
    \/ \E reply \in CodesReplies(stock_codes) : GetAllStockCodes(reply)

Spec == Init /\ [][Next]_vars

\* What the handler thread and the pool threads of request r do next, once
\* the request is dispatched.
Progress(r) ==
    \/ \E outage \in 0..MaxOutage : Submit(r, outage)
    \/ \E i \in DOMAIN futures[r] : StartFetch(r, i)
    \/ \E i \in DOMAIN futures[r] : \E kind \in FailureKinds : ProviderCall(r, i, kind)
    \/ \E i \in DOMAIN futures[r] : Wake(r, i)
    \/ \E i \in DOMAIN futures[r] : Collect(r, i)
    \/ Respond(r)

\* The same server, where a thread that can take a step takes one in the
\* end: the operating system schedules every thread, each call of
\* nse.get_quote returns or raises, each time.sleep ends.
SpecFair == Init /\ [][Next]_vars /\ \A r \in Requests : WF_vars(Progress(r))

\* ------------------------------------------------------------ the partitioner alone
\* get_stock_symbols applied to a table of n symbols and a batch-count
\* target; the server is not started.
PartInputs ==
    {PartInput(n, t) : n \in 0..MaxPartLen, t \in 1..MaxTarget}
        \cup {PartInput(950, BATCH_COUNT_NUM)}

PartInit ==
    /\ stock_codes = <<>>
    /\ stock_symbols = <<>>
    /\ pc = [r \in Requests |-> "idle"]
    /\ batch_param = [r \in Requests |-> NoArg]
    /\ selected_symbols = [r \in Requests |-> <<>>]
    /\ futures = [r \in Requests |-> <<>>]
    /\ all_stock_data = [r \in Requests |-> <<>>]
    /\ rounds = [r \in Requests |-> 0]
    /\ response = [r \in Requests |-> NoResponse]
    /\ codes_response = NoCodesResponse
    /\ part_in \in PartInputs
    /\ part_out = [done |-> FALSE, main_lst |-> <<>>]
    /\ calc_in = CalcInput(0, 0, 0)
    /\ calc_out = NoCalc

Partition ==
    /\ ~part_out.done
    /\ part_out' = [done |-> TRUE,
                    main_lst |-> get_stock_symbols(part_in.symbols, part_in.target)]
    /\ UNCHANGED part_in
    /\ UNCHANGED server_vars
    /\ UNCHANGED calc_vars

PartNext == Partition

SpecPartition == PartInit /\ [][PartNext]_vars

\* ------------------------------------------------------------ the calculator alone
\* calculate_and_save applied to an open price and a prior-day high and low
\* on the tick grid; the server is not started.  The open prices are the
\* small ones, where the stop-loss distance goes from 0 to 1 tick, and 100.00.
CalcOpens == 0..MaxOpen \cup {100 * TicksPerUnit}

CalcInputs ==
    UNION {{CalcInput(o, l + rg, l) : l \in {0, o}, rg \in 0..MaxRange} : o \in CalcOpens}

CalcInit ==
    /\ stock_codes = <<>>
    /\ stock_symbols = <<>>
    /\ pc = [r \in Requests |-> "idle"]
    /\ batch_param = [r \in Requests |-> NoArg]
    /\ selected_symbols = [r \in Requests |-> <<>>]
    /\ futures = [r \in Requests |-> <<>>]
    /\ all_stock_data = [r \in Requests |-> <<>>]
    /\ rounds = [r \in Requests |-> 0]
    /\ response = [r \in Requests |-> NoResponse]
    /\ codes_response = NoCodesResponse
    /\ part_in = PartInput(0, BATCH_COUNT_NUM)
    /\ part_out = [done |-> FALSE, main_lst |-> <<>>]
    /\ calc_in \in CalcInputs
    /\ calc_out = NoCalc

Calculate ==
    /\ ~calc_out.done
    /\ \E d \in calculate_and_save(calc_in.open, calc_in.high, calc_in.low) :
          calc_out' = [done |-> TRUE, dict |-> d]
    /\ UNCHANGED calc_in
    /\ UNCHANGED server_vars
    /\ UNCHANGED part_vars

CalcNext == Calculate

SpecCalc == CalcInit /\ [][CalcNext]_vars

\* ------------------------------------------------------------ the thread pool at its cap
\* One request for the first batch of a table whose batches are larger than
\* the worker cap.  The provider answers every call at once and in the
\* order the calls were made, and as_completed yields the futures in the
\* order they completed.
PoolSymbols == (MAX_WORKERS + PoolExcess) * BATCH_COUNT_NUM

PoolInit ==
    /\ stock_codes = CodeTable(PoolSymbols, TRUE)
    /\ stock_symbols = SymbolsOf(stock_codes)
    /\ pc = [r \in Requests |-> "idle"]
    /\ batch_param = [r \in Requests |-> NoArg]
    /\ selected_symbols = [r \in Requests |-> <<>>]
    /\ futures = [r \in Requests |-> <<>>]
    /\ all_stock_data = [r \in Requests |-> <<>>]
    /\ rounds = [r \in Requests |-> 0]
    /\ response = [r \in Requests |-> NoResponse]
    /\ codes_response = NoCodesResponse
    /\ part_in = PartInput(0, BATCH_COUNT_NUM)
    /\ part_out = [done |-> FALSE, main_lst |-> <<>>]
    /\ calc_in = CalcInput(0, 0, 0)
    /\ calc_out = NoCalc

\* Every call made before the call of future i has been answered.
AnsweredBefore(r, i) == \A j \in 1..(i - 1) : finished(futures[r][j])

\* Every future completed before future i has been yielded.
YieldedBefore(r, i) == \A j \in 1..(i - 1) : futures[r][j].yielded

PoolNext ==
    \/ \E r \in Requests : pc[r] = "idle" /\ Alone(r) /\ HandlerEntry(r, Arg(TRUE, 1))
    \/ \E r \in Requests : Submit(r, 0)
    \/ \E r \in Requests : \E i \in DOMAIN futures[r] : StartFetch(r, i)
    \/ \E r \in Requests : \E i \in DOMAIN futures[r] :
          AnsweredBefore(r, i) /\ ProviderCall(r, i, "raise")
    \/ \E r \in Requests : \E i \in DOMAIN futures[r] :
          YieldedBefore(r, i) /\ Collect(r, i)
    \/ \E r \in Requests : Respond(r)

SpecPool == PoolInit /\ [][PoolNext]_vars

\* ------------------------------------------------------------ concurrent requests
\* The threaded server serving several /get_stocks_data requests at once,
\* each for the first or the last batch.  For each symbol the provider
\* either answers the first call or fails all through the retries.
ConcInit ==
    /\ stock_codes = CodeTable(ConcSymbols, TRUE)
    /\ stock_symbols = SymbolsOf(stock_codes)
    /\ pc = [r \in Requests |-> "idle"]
    /\ batch_param = [r \in Requests |-> NoArg]
    /\ selected_symbols = [r \in Requests |-> <<>>]
    /\ futures = [r \in Requests |-> <<>>]
    /\ all_stock_data = [r \in Requests |-> <<>>]
    /\ rounds = [r \in Requests |-> 0]
    /\ response = [r \in Requests |-> NoResponse]
    /\ codes_response = NoCodesResponse
    /\ part_in = PartInput(0, BATCH_COUNT_NUM)
    /\ part_out = [done |-> FALSE, main_lst |-> <<>>]
    /\ calc_in = CalcInput(0, 0, 0)
    /\ calc_out = NoCalc

ConcArgs(main_lst) == {Arg(TRUE, 1), Arg(TRUE, Len(main_lst))}

ConcOutages == {0, MAX_RETRIES}

ConcNext ==
    \/ \E r \in Requests :
          /\ pc[r] = "idle"
          /\ \E arg \in ConcArgs(get_stock_symbols(stock_symbols, BATCH_COUNT_NUM)) :
                HandlerEntry(r, arg)
    \/ \E r \in Requests, outage \in ConcOutages : Submit(r, outage)
    \/ \E r \in Requests : \E i \in DOMAIN futures[r] : StartFetch(r, i)
    \/ \E r \in Requests : \E i \in DOMAIN futures[r] :
          \E kind \in FailureKinds : ProviderCall(r, i, kind)
    \/ \E r \in Requests : \E i \in DOMAIN futures[r] : Wake(r, i)
    \/ \E r \in Requests : \E i \in DOMAIN futures[r] : Collect(r, i)
    \/ \E r \in Requests : Respond(r)

SpecConc == ConcInit /\ [][ConcNext]_vars

\* ------------------------------------------------------------ properties
\* What a 200 response of /get_stocks_data reports: the symbols of its
\* stocks list, and the symbols of its not-fetched list (none when the
\* response has no such list).
Fetched(resp) == {resp.body.stocks[i].STOCK_SYMBOL : i \in DOMAIN resp.body.stocks}

NotFetched(resp) ==
    IF "not_fetched_lst" \in DOMAIN resp.body
    THEN Range(resp.body.not_fetched_lst)
    ELSE {}

Dispatched(r) == rounds[r] > 0

Replied(r) == pc[r] = "responded"

AllFutures == UNION {{<<r, i>> : i \in DOMAIN futures[r]} : r \in Requests}

\* The provider fails on every call the fetch can make.
AlwaysFails(f) == f.outage >= MAX_RETRIES

\* C1: every symbol of a dispatched batch is reported in exactly one of the
\* response's stocks list and its not-fetched list.
C1_Partitioned ==
    \A r \in Requests :
        (Replied(r) /\ response[r].status = 200) =>
            /\ Fetched(response[r]) \cup NotFetched(response[r]) = Range(selected_symbols[r])
            /\ Fetched(response[r]) \cap NotFetched(response[r]) = {}

\* C2: a fetch against a provider that fails on every call returns None after
\* exactly MAX_RETRIES provider calls and MAX_RETRIES - 1 delays of
\* RETRY_DELAY; a delay is only ever in progress before a further attempt.
C2_AlwaysFailing ==
    \A <<r, i>> \in AllFutures :
        LET f == futures[r][i]
        IN  /\ f.state = "sleeping" => f.attempt < MAX_RETRIES /\ f.delays = f.attempt
            /\ (finished(f) /\ AlwaysFails(f)) =>
                   /\ f.state = "returned" /\ f.result = None
                   /\ f.calls = MAX_RETRIES
                   /\ f.delays = MAX_RETRIES - 1
                   /\ f.slept = (MAX_RETRIES - 1) * RETRY_DELAY

C2_Witness ==
    \E <<r, i>> \in AllFutures :
        /\ finished(futures[r][i]) /\ AlwaysFails(futures[r][i])
        /\ futures[r][i].calls = MAX_RETRIES

\* C3: a fetch whose provider fails on calls 1..k-1 and answers call k
\* (k <= MAX_RETRIES) returns the object of its symbol after exactly k calls
\* and k-1 delays, and its call count never moves afterwards.
C3_StopsAtFirstSuccess ==
    \A <<r, i>> \in AllFutures :
        LET f == futures[r][i]
            k == f.outage + 1
        IN  (finished(f) /\ k <= MAX_RETRIES) =>
                /\ f.state = "returned" /\ f.result.kind = "obj"
                /\ f.result.STOCK_SYMBOL = f.symbol
                /\ f.calls = k
                /\ f.delays = k - 1
                /\ f.attempt = k

C3_Witness ==
    \E <<r, i>> \in AllFutures :
        /\ futures[r][i].yielded
        /\ futures[r][i].outage = 1
        /\ futures[r][i].calls = 2
        /\ futures[r][i].result.kind = "obj"

\* C4: a fetch never raises; it returns None, or the object carrying the
\* requested symbol and the non-empty quote the provider returned for it on
\* the last call.
C4_ObjOrNone ==
    \A <<r, i>> \in AllFutures :
        LET f == futures[r][i]
        IN  /\ f.state # "raised"
            /\ f.symbol = selected_symbols[r][i]
            /\ f.state = "returned" =>
                   \/ f.result = None
                   \/ /\ f.result = obj(f.symbol, Reply("quote", f.symbol))
                      /\ f.calls > f.outage
            /\ f.state # "returned" => f.result = None

C4_Witness ==
    \E <<r, i>> \in AllFutures :
        /\ futures[r][i].state = "returned"
        /\ futures[r][i].calls = MAX_RETRIES
        /\ futures[r][i].result.kind = "obj"
        /\ futures[r][i].result.STOCK_DATA.kind = "quote"

\* The symbols the first fan-out of a request left unfetched.
Residual(r) == {futures[r][i].symbol : i \in {j \in DOMAIN futures[r] : futures[r][j].result = None}}

\* C5: a dispatch performs a second round exactly when the first round left
\* a symbol unfetched, and never a third.
C5_SecondRound ==
    \A r \in Requests :
        (Replied(r) /\ Dispatched(r)) =>
            rounds[r] = (IF Residual(r) = {} THEN 1 ELSE 2)

\* C6: when every symbol of the batch fails all through the first round and
\* the provider answers every later call, the response reports the whole
\* batch as fetched.
C6_SecondRoundMerged ==
    \A r \in Requests :
        (/\ Replied(r) /\ Dispatched(r)
         /\ \A i \in DOMAIN futures[r] : futures[r][i].outage = MAX_RETRIES) =>
            /\ response[r].status = 200
            /\ Fetched(response[r]) = Range(selected_symbols[r])
            /\ NotFetched(response[r]) = {}

\* C7: a dispatched request always answers 200 with exactly the objects of
\* the symbols whose fetch succeeded, however many fetches returned None;
\* /get_stocks_data answers 500 for no request.
C7_FailuresAbsorbed ==
    \A r \in Requests :
        /\ response[r].status \in {0, 200, 400}
        /\ (Replied(r) /\ Dispatched(r)) =>
               /\ response[r].status = 200
               /\ Range(response[r].body.stocks) =
                      {futures[r][i].result :
                          i \in {j \in DOMAIN futures[r] : futures[r][j].result.kind = "obj"}}
               /\ Len(response[r].body.stocks) =
                      Cardinality({j \in DOMAIN futures[r] : futures[r][j].result.kind = "obj"})

C7_Witness ==
    \E r \in Requests :
        /\ Replied(r) /\ response[r].status = 200
        /\ Len(response[r].body.stocks) = 1
        /\ \E i \in DOMAIN futures[r] : futures[r][i].result = None

\* C8: a request without batch_num, or with one outside 1..number of
\* batches, is answered 400 and starts no fetch; any other request
\* dispatches exactly the symbols of the batch_num-th slice.
C8_BatchNumChecked ==
    \A r \in Requests :
        LET main_lst == get_stock_symbols(stock_symbols, BATCH_COUNT_NUM)
            arg      == batch_param[r]
            n        == Len(stock_symbols)
            size     == Max(1, n \div BATCH_COUNT_NUM)
        IN  pc[r] # "idle" =>
              /\ (~arg.given \/ arg.value < 1 \/ arg.value > Len(main_lst)) =>
                     response[r].status = 400
              /\ response[r].status = 400 =>
                     /\ Replied(r)
                     /\ ~arg.given \/ arg.value < 1 \/ arg.value > response[r].hi
                     /\ response[r].hi \in {0, Len(main_lst)}
                     /\ futures[r] = <<>> /\ rounds[r] = 0 /\ selected_symbols[r] = <<>>
              /\ response[r].status # 400 =>
                     /\ arg.given /\ 1 <= arg.value /\ arg.value <= Len(main_lst)
                     /\ selected_symbols[r] =
                            SubSeq(stock_symbols, (arg.value - 1) * size + 1,
                                   Min(arg.value * size, n))
                     /\ Len(futures[r]) <= Len(selected_symbols[r])
                     /\ pc[r] # "submitting" => Len(futures[r]) = Len(selected_symbols[r])
                     /\ \A i \in DOMAIN futures[r] :
                            futures[r][i].symbol = selected_symbols[r][i]

C8_Witness ==
    \E r \in Requests :
        /\ Replied(r) /\ response[r].status = 400
        /\ response[r].error = "range"
        /\ response[r].hi > 0
        /\ batch_param[r].value = response[r].hi + 1

\* The concatenation of the slices of a partition.
RECURSIVE Flatten(_)
Flatten(lst) == IF lst = <<>> THEN <<>> ELSE Head(lst) \o Flatten(Tail(lst))

\* C9: the slices concatenate to the input; every slice but the last has
\* max(1, n \div t) symbols, the last has between 1 and that many, and there
\* are ceil(n / batch size) slices.
C9_Partition ==
    part_out.done =>
        LET lst  == part_out.main_lst
            n    == Len(part_in.symbols)
            size == Max(1, n \div part_in.target)
        IN  /\ Flatten(lst) = part_in.symbols
            /\ \A k \in 1..(Len(lst) - 1) : Len(lst[k]) = size
            /\ Len(lst) > 0 => Len(lst[Len(lst)]) \in 1..size
            /\ Len(lst) * size >= n
            /\ (Len(lst) - 1) * size < n

C9_Witness ==
    /\ part_out.done
    /\ Len(part_out.main_lst) > part_in.target
    /\ Len(part_out.main_lst[Len(part_out.main_lst)]) < Len(part_out.main_lst[1])

\* C10 as stated: 950 symbols with target 100 give 106 batches of 9
\* symbols, the last of 4.
C10_Original ==
    (part_out.done /\ Len(part_in.symbols) = 950 /\ part_in.target = 100) =>
        /\ Len(part_out.main_lst) = 106
        /\ \A k \in 1..105 : Len(part_out.main_lst[k]) = 9
        /\ Len(part_out.main_lst[106]) = 4

\* C10 as amended: 950 symbols with target 100 give 106 batches of 9
\* symbols, the last of 5 (950 = 105 * 9 + 5).
C10_Amended ==
    (part_out.done /\ Len(part_in.symbols) = 950 /\ part_in.target = 100) =>
        /\ Len(part_out.main_lst) = 106
        /\ \A k \in 1..105 : Len(part_out.main_lst[k]) = 9
        /\ Len(part_out.main_lst[106]) = 5

C10_Witness ==
    part_out.done /\ Len(part_in.symbols) = 950 /\ part_in.target = 100

Running(r) == {i \in DOMAIN futures[r] : running(futures[r][i])}

Finished(r) == {i \in DOMAIN futures[r] : finished(futures[r][i])}

\* C12: at most MAX_WORKERS calls of fetch_stock_data of one dispatch are
\* running at a time, whatever the size of the batch; the call of a symbol
\* beyond the cap has started only if enough earlier calls have returned.
C12_WorkerCap ==
    \A r \in Requests :
        /\ Cardinality(Running(r)) <= MAX_WORKERS
        /\ \A i \in DOMAIN futures[r] :
               (i > MAX_WORKERS /\ futures[r][i].state # "queued") =>
                   Cardinality(Finished(r) \ {i}) >= i - MAX_WORKERS

C12_Witness ==
    \E r \in Requests :
        /\ Len(futures[r]) > MAX_WORKERS
        /\ Cardinality(Running(r)) = MAX_WORKERS
        /\ futures[r][MAX_WORKERS + 1].state = "calling"

\* The calls in flight: <<request, index>> of every running future.
InFlight == {ri \in AllFutures : running(futures[ri[1]][ri[2]])}

SymbolOf(ri) == futures[ri[1]][ri[2]].symbol

C14_AllCompleted ==
    \A r \in Requests :
        (response[r] # NoResponse /\ Dispatched(r)) =>
            /\ Len(futures[r]) = Len(selected_symbols[r])
            /\ \A i \in DOMAIN futures[r] :
                  /\ finished(futures[r][i])
                  /\ futures[r][i].result.kind = "obj" \/ futures[r][i].calls = MAX_RETRIES

C14_Witness ==
    \E r \in Requests :
        /\ response[r].status = 200
        /\ Len(futures[r]) > 1
        /\ \E i \in DOMAIN futures[r] : futures[r][i].result = None
        /\ \E i \in DOMAIN futures[r] :
              futures[r][i].result.kind = "obj" /\ futures[r][i].calls = MAX_RETRIES

\* The futures of request r that returned a data object.
Succeeded(r) == {i \in DOMAIN futures[r] : futures[r][i].result.kind = "obj"}

\* The batch the request asked for.
BatchOf(r) ==
    py_index(get_stock_symbols(stock_symbols, BATCH_COUNT_NUM), batch_param[r].value - 1)

ProviderAnswers(r) ==
    {futures[r][i].symbol : i \in {j \in DOMAIN futures[r] : ~AlwaysFails(futures[r][j])}}

ProviderFails(r) ==
    {futures[r][i].symbol : i \in {j \in DOMAIN futures[r] : AlwaysFails(futures[r][j])}}

\* C16: the fetched set of a response is determined by the batch and by
\* what the provider does on the successive calls for each symbol, whatever
\* the interleaving and the completion order of the fetches: it is the set
\* of the symbols the provider answers within MAX_RETRIES calls, and the
\* symbols whose fetch returned None are the rest of the batch.
C16_ScheduleIndependent ==
    \A r \in Requests :
        (Replied(r) /\ Dispatched(r)) =>
            /\ Fetched(response[r]) = ProviderAnswers(r)
            /\ Range(selected_symbols[r]) \ Fetched(response[r]) = ProviderFails(r)
            /\ {futures[r][i].symbol :
                   i \in {j \in DOMAIN futures[r] : futures[r][j].result = None}}
                  = ProviderFails(r)

\* Both symbols of a batch were fetched, the second after a retry, and the
\* stocks list has them in the reverse of the order of submission.
C16_Witness ==
    \E r \in Requests :
        /\ Replied(r) /\ response[r].status = 200
        /\ Len(response[r].body.stocks) = 2
        /\ response[r].body.stocks[1].STOCK_SYMBOL = futures[r][2].symbol
        /\ response[r].body.stocks[2].STOCK_SYMBOL = futures[r][1].symbol
        /\ futures[r][2].delays > 0

\* C17: with fair scheduling, provider calls that return or raise and sleeps
\* that end, no call of fetch_stock_data makes more than MAX_RETRIES
\* attempts, every submitted call returns in the end, and every request
\* with a valid batch_num is answered in the end with all its calls
\* returned, whatever the provider does.
C17_EventuallyCompletes ==
    /\ [](\A ri \in AllFutures :
             /\ futures[ri[1]][ri[2]].attempt <= MAX_RETRIES
             /\ futures[ri[1]][ri[2]].calls <= MAX_RETRIES)
    /\ \A r \in Requests :
          Dispatched(r) ~>
              (/\ Replied(r)
               /\ response[r].status = 200
               /\ Len(futures[r]) = Len(selected_symbols[r])
               /\ \A i \in DOMAIN futures[r] : futures[r][i].state = "returned")

\* A dispatch has completed with one fetch that succeeded at the first call
\* and one that failed MAX_RETRIES times.
C17_Witness ==
    \E r \in Requests :
        /\ Replied(r) /\ Dispatched(r)
        /\ \E i \in DOMAIN futures[r] :
              futures[r][i].calls = 1 /\ futures[r][i].result.kind = "obj"
        /\ \E i \in DOMAIN futures[r] :
              futures[r][i].calls = MAX_RETRIES /\ futures[r][i].result = None

\* C18: when /get_all_stock_codes has answered for a table of n >= 1
\* symbols, the batch_size it reports is the batch size of the partitioner,
\* the batch_count it reports is the number of batches get_stock_symbols
\* returns, and /get_stocks_data accepts a batch_num exactly when it is
\* within 1..reported batch_count.
C18_ReportsPartition ==
    (codes_response.status = 200 /\ Len(stock_symbols) >= 1) =>
        LET main_lst == get_stock_symbols(stock_symbols, BATCH_COUNT_NUM)
        IN  /\ codes_response.batch_size = batch_size_of(Len(stock_symbols), BATCH_COUNT_NUM)
            /\ codes_response.batch_count = Len(main_lst)
            /\ \A r \in Requests :
                  (pc[r] # "idle" /\ batch_param[r].given) =>
                      (check_batch_num(batch_param[r], main_lst) = "ok"
                          <=> batch_param[r].value \in 1..codes_response.batch_count)

====
